---- MODULE Spec2Model ----
(***************************************************************************)
(* Knowledge-of-secret-key (Kosk) BLS protocol layer of bgls               *)
(* (src/bgls/blsKosk.go).                                                  *)
(*                                                                         *)
(* The functions of blsKosk.go are pure: the state of the model is the     *)
(* last call (function, arguments), its result and the byte strings it     *)
(* handed to the curve layer.                                              *)
(*                                                                         *)
(* The curve layer (package curves, bls.go) is not part of the sources     *)
(* at hand; it is modelled from the specification as a symbolic            *)
(* prime-order pairing group:                                              *)
(*   - a key-group point is its discrete logarithm modulo Q,               *)
(*   - a signature-group point is a linear combination, modulo Q, of the   *)
(*     hash points H_h(bytes), which are taken to be independent (no       *)
(*     collisions, no known relations between hash points),                *)
(*   - e(P, k) is the combination P scaled by k.                           *)
(***************************************************************************)
EXTENDS Integers, Sequences, FiniteSets

\* Order of the groups (a prime).
Q == 3

\* Longest message a caller signs or verifies.
MaxMsgLen == 1
\* Longest list of keys / signers in one call.
MaxKeys == 2
\* Largest multiplicity of one signer in an aggregate.
MaxMult == 2

\* The values of one byte of a message or of an encoding.
Byte == 0..1

\* Hash-to-curve functions: the curve's default and a caller-supplied one.
HashToG1 == "HashToG1"
Hashes == {"HashToG1", "CustomHash"}

SecretKeys == 1..(Q - 1)
\* Points of the key group, by discrete logarithm (0 is the identity).
KeyPoints == 0..(Q - 1)

----------------------------------------------------------------------------
(* Curve layer *)

\* A signature-group point is the set of its terms <<hash point, coefficient>>
\* with a coefficient in 1..Q-1.
\* Identity of the signature group.
Zero == {}

Coef(P, b) ==
    IF \E t \in P : t[1] = b THEN (CHOOSE t \in P : t[1] = b)[2] ELSE 0

\* Point.Add on the signature group.
PointAdd(P, R) ==
    LET D == {t[1] : t \in P \cup R}
        S == {b \in D : (Coef(P, b) + Coef(R, b)) % Q # 0}
    IN  {<<b, (Coef(P, b) + Coef(R, b)) % Q>> : b \in S}

\* Point.Mul on the signature group.
PointMul(P, n) ==
    {<<t[1], (t[2] * n) % Q>> : t \in {x \in P : (x[2] * n) % Q # 0}}

\* hash(bytes): the point the hash function h maps bytes to.
Hash(h, bytes) == {<< <<h, bytes>>, 1 >>}

\* Generator of the key group.
GetG2 == 1

\* LoadPublicKey: sk * g2.
LoadPublicKey(sk) == (sk * GetG2) % Q

\* Point.Marshal on the key group: fixed-width big-endian encoding.
Marshal(p) == <<p \div Cardinality(Byte), p % Cardinality(Byte)>>

\* Pairing e(P, k) of a signature-group point with a key-group point.
Pair(P, k) == PointMul(P, k)

\* SignCustHash(sk, msg, hash) = sk * hash(msg).
SignCustHash(sk, m, hash) == PointMul(Hash(hash, m), sk)

\* VerifySingleSignatureCustHash: e(sig, g2) = e(hash(m), pubKey).
VerifySingleSignatureCustHash(sig, pubKey, m, hash) ==
    Pair(sig, GetG2) = Pair(Hash(hash, m), pubKey)

\* VerifySingleSignature: the same with the curve's default hash.
VerifySingleSignature(sig, pubKey, m) ==
    VerifySingleSignatureCustHash(sig, pubKey, m, HashToG1)

RECURSIVE SumPoints(_)
SumPoints(ps) ==
    IF Len(ps) = 0 THEN Zero
    ELSE PointAdd(ps[1], SumPoints(Tail(ps)))

\* AggregateSignatures: the sum of the signatures.
AggregateSignatures(sigs) == SumPoints(sigs)

RECURSIVE SumKeys(_)
SumKeys(ks) ==
    IF Len(ks) = 0 THEN 0
    ELSE (ks[1] + SumKeys(Tail(ks))) % Q

\* AggregateKeys: the sum of the keys.
AggregateKeys(keys) == SumKeys(keys)

\* ScalePoints: keys[i] scaled by factors[i].
ScalePoints(keys, factors) ==
    [i \in DOMAIN keys |-> (keys[i] * factors[i]) % Q]

RECURSIVE SumPairs(_, _)
SumPairs(keys, msgs) ==
    IF Len(keys) = 0 THEN Zero
    ELSE PointAdd(Pair(Hash(HashToG1, msgs[1]), keys[1]),
                  SumPairs(Tail(keys), Tail(msgs)))

ContainsDuplicateMessage(msgs) ==
    \E i, j \in DOMAIN msgs : i # j /\ msgs[i] = msgs[j]

\* verifyAggSig: e(aggsig, g2) = sum of e(H(msgs[i]), keys[i]).
verifyAggSig(aggsig, keys, msgs, allowDuplicates) ==
    IF Len(keys) # Len(msgs) THEN FALSE
    ELSE IF ~allowDuplicates /\ ContainsDuplicateMessage(msgs) THEN FALSE
    ELSE Pair(aggsig, GetG2) = SumPairs(keys, msgs)

\* verifyMultiSignature: e(aggsig, g2) = e(H(msg), sum of keys).
verifyMultiSignature(aggsig, keys, msg) ==
    VerifySingleSignature(aggsig, AggregateKeys(keys), msg)

----------------------------------------------------------------------------
(* blsKosk.go *)

\* make([]byte, n)
MakeBytes(n) == [i \in 1..n |-> 0]

\* The message AuthenticateCustHash hands to SignCustHash.
AuthenticateMsg(sk) ==
    LET msg == Marshal(LoadPublicKey(sk))
    IN  MakeBytes(0) \o msg

AuthenticateCustHash(sk, hash) == SignCustHash(sk, AuthenticateMsg(sk), hash)

Authenticate(sk) == AuthenticateCustHash(sk, HashToG1)

\* CheckAuthenticationCustHash with a null byte before the encoding.
CheckAuthenticationMsgNull(pubkey) ==
    LET msg == Marshal(pubkey)
    IN  MakeBytes(1) \o msg

\* The message CheckAuthenticationCustHash hands to the verify primitive.
CheckAuthenticationMsg(pubkey) ==
    LET msg == Marshal(pubkey)
    IN  MakeBytes(0) \o msg

CheckAuthenticationCustHash(pubkey, authentication, hash) ==
    VerifySingleSignatureCustHash(authentication, pubkey,
                                  CheckAuthenticationMsg(pubkey), hash)

CheckAuthentication(pubkey, authentication) ==
    CheckAuthenticationCustHash(pubkey, authentication, HashToG1)

\* append([]byte{1}, msg...)
KoskTag(msg) == <<1>> \o msg

\* KoskSignCustHash without the 0x01 byte.
KoskSignCustHashUntagged(sk, msg, hash) == SignCustHash(sk, msg, hash)

KoskSignCustHash(sk, msg, hash) == SignCustHash(sk, KoskTag(msg), hash)

KoskSign(sk, msg) == KoskSignCustHash(sk, msg, HashToG1)

KoskVerifySingleSignatureCustHash(pubKey, msg, sig, hash) ==
    LET m == KoskTag(msg)
    IN  VerifySingleSignature(sig, pubKey, m)

KoskVerifySingleSignature(sig, pubKey, msg) ==
    KoskVerifySingleSignatureCustHash(pubKey, msg, sig, HashToG1)

\* KoskVerifyAggregateSignature with the last message left untagged.
KoskVerifyAggregateSignatureShortLoop(aggsig, keys, msgs) ==
    LET newMsgs == [i \in DOMAIN msgs |->
                      IF i < Len(msgs) THEN KoskTag(msgs[i]) ELSE msgs[i]]
    IN  verifyAggSig(aggsig, keys, newMsgs, TRUE)

KoskVerifyAggregateSignature(aggsig, keys, msgs) ==
    LET newMsgs == [i \in DOMAIN msgs |-> KoskTag(msgs[i])]
    IN  verifyAggSig(aggsig, keys, newMsgs, TRUE)

\* KoskVerifyMultiSignature without the 0x01 byte.
KoskVerifyMultiSignatureUntagged(aggsig, keys, msg) ==
    verifyMultiSignature(aggsig, keys, msg)

KoskVerifyMultiSignature(aggsig, keys, msg) ==
    LET msg2 == KoskTag(msg)
    IN  verifyMultiSignature(aggsig, keys, msg2)

\* MultiSig.Verify, m = [sig, keys, msg]
MultiSigVerify(m) == KoskVerifyMultiSignature(m.sig, m.keys, m.msg)

\* KoskVerifyBatchMultiSignature with the first key of each set for the set.
KoskVerifyBatchMultiSignatureFirstKey(aggsigs, pubkeys, msgs) ==
    LET aggsig == AggregateSignatures(aggsigs)
        keys == [i \in DOMAIN pubkeys |-> pubkeys[i][1]]
    IN  KoskVerifyAggregateSignature(aggsig, keys, msgs)

KoskVerifyBatchMultiSignature(aggsigs, pubkeys, msgs) ==
    LET aggsig == AggregateSignatures(aggsigs)
        keys == [i \in DOMAIN pubkeys |-> AggregateKeys(pubkeys[i])]
    IN  KoskVerifyAggregateSignature(aggsig, keys, msgs)

\* A []int64 argument: nil, or a slice with elements.
NilSlice == [nil |-> TRUE, elems |-> <<>>]
Slice(s) == [nil |-> FALSE, elems |-> s]

\* KoskVerifyMultiSignatureWithMultiplicity with the keys left unscaled.
KoskVerifyMultiSignatureWithMultiplicityUnscaled(aggsig, keys, multiplicity, msg) ==
    IF multiplicity.nil THEN KoskVerifyMultiSignature(aggsig, keys, msg)
    ELSE IF Len(keys) # Len(multiplicity.elems) THEN FALSE
    ELSE KoskVerifyMultiSignature(aggsig, keys, msg)

KoskVerifyMultiSignatureWithMultiplicity(aggsig, keys, multiplicity, msg) ==
    IF multiplicity.nil THEN KoskVerifyMultiSignature(aggsig, keys, msg)
    ELSE IF Len(keys) # Len(multiplicity.elems) THEN FALSE
    ELSE LET factors == [i \in DOMAIN keys |-> multiplicity.elems[i]]
             scaledKeys == ScalePoints(keys, factors)
         IN  KoskVerifyMultiSignature(aggsig, scaledKeys, msg)

----------------------------------------------------------------------------
(* Inputs *)

\* Lists of n elements of S.
RECURSIVE Lists(_, _)
Lists(S, n) ==
    IF n = 0 THEN {<<>>}
    ELSE {Append(s, x) : s \in Lists(S, n - 1), x \in S}

\* Byte strings of length n.
Bytes(n) == Lists(Byte, n)
Msgs == UNION {Bytes(n) : n \in 0..MaxMsgLen}

\* Lists of signers and of keys.
SignerSeqs == UNION {Lists(SecretKeys, n) : n \in 1..MaxKeys}
KeySeqs == UNION {Lists(KeyPoints, n) : n \in 1..MaxKeys}

PublicKeys(sks) == [i \in DOMAIN sks |-> LoadPublicKey(sks[i])]

Same(sks, x) == [i \in DOMAIN sks |-> x]

DropLast(s) == SubSeq(s, 1, Len(s) - 1)
SwapAt(s, i, j) == [s EXCEPT ![i] = s[j], ![j] = s[i]]

\* Lists that differ from s in one place, or in length by one.
Replaced(s, S) == {[s EXCEPT ![i] = v] : i \in DOMAIN s, v \in S}
Swapped(s) == {SwapAt(s, i, j) : i, j \in DOMAIN s}
Shorter(s) == IF Len(s) > 1 THEN {DropLast(s)} ELSE {}
Longer(s, S) == {Append(s, v) : v \in S}
OneOff(mult) ==
    {[mult EXCEPT ![i] = mult[i] + d] : i \in DOMAIN mult, d \in {-1, 1}}

\* n copies of x.
RECURSIVE Copies(_, _)
Copies(x, n) == IF n = 0 THEN <<>> ELSE <<x>> \o Copies(x, n - 1)

\* The Kosk signatures of signer i on msgs[i], each listed mult[i] times.
RECURSIVE Signatures(_, _, _)
Signatures(sks, msgs, mult) ==
    IF Len(sks) = 0 THEN <<>>
    ELSE Copies(KoskSign(sks[1], msgs[1]), mult[1])
           \o Signatures(Tail(sks), Tail(msgs), Tail(mult))

\* What the signers of an aggregate did: signer i signed msgs[i], and the
\* signature was summed mult[i] times. Either every signature is summed
\* once, or all signers signed the same message.
Aggregations ==
    UNION {
        {[sks |-> sks, msgs |-> ms, mult |-> Same(sks, 1)] :
            ms \in Lists(Msgs, Len(sks))}
        \cup {[sks |-> sks, msgs |-> Same(sks, m), mult |-> mult] :
                m \in Msgs, mult \in Lists(1..MaxMult, Len(sks))} :
        sks \in SignerSeqs}

\* A multi-signature of a batch: its signers and their common message.
Entries == [sks : SignerSeqs, msg : Msgs]

RECURSIVE Signers(_)
Signers(b) == IF Len(b) = 0 THEN 0 ELSE Len(b[1].sks) + Signers(Tail(b))

\* Batches of at most MaxKeys multi-signatures, of MaxKeys + 1 signers in
\* all; the multi-signatures after the first have one signer each.
Batches ==
    LET Single == {e \in Entries : Len(e.sks) = 1}
        Rest == UNION {Lists(Single, k) : k \in 0..(MaxKeys - 1)}
    IN  {b \in {<<e>> \o r : e \in Entries, r \in Rest} :
            Signers(b) <= MaxKeys + 1}

----------------------------------------------------------------------------
(* State: the signatures made, then one call of a verifier *)

VARIABLES
    fn,     \* the function called last ("none" at the start)
    args,   \* its arguments
    ret,    \* its result
    prim,   \* what it handed to the curve layer: primitive, messages, hash
    made    \* who signed what to make the signature(s) at hand

vars == <<fn, args, ret, prim, made>>

Init ==
    /\ fn = "none"
    /\ args = <<>>
    /\ ret = FALSE
    /\ prim = <<>>
    /\ made = <<>>

(* Signers *)

CallAuthenticate ==
    /\ fn = "none"
    /\ \E sk \in SecretKeys :
        /\ fn' = "Authenticate"
        /\ args' = [sk |-> sk]
        /\ ret' = Authenticate(sk)
        /\ prim' = [op |-> "SignCustHash", m |-> <<AuthenticateMsg(sk)>>,
                    hash |-> HashToG1]
        /\ made' = [kind |-> "auth", sk |-> sk, msg |-> <<>>, hash |-> HashToG1]

CallAuthenticateCustHash ==
    /\ fn = "none"
    /\ \E sk \in SecretKeys, hash \in Hashes :
        /\ fn' = "AuthenticateCustHash"
        /\ args' = [sk |-> sk, hash |-> hash]
        /\ ret' = AuthenticateCustHash(sk, hash)
        /\ prim' = [op |-> "SignCustHash", m |-> <<AuthenticateMsg(sk)>>,
                    hash |-> hash]
        /\ made' = [kind |-> "auth", sk |-> sk, msg |-> <<>>, hash |-> hash]

CallKoskSign ==
    /\ fn = "none"
    /\ \E sk \in SecretKeys, msg \in Msgs :
        /\ fn' = "KoskSign"
        /\ args' = [sk |-> sk, msg |-> msg]
        /\ ret' = KoskSign(sk, msg)
        /\ prim' = [op |-> "SignCustHash", m |-> <<KoskTag(msg)>>,
                    hash |-> HashToG1]
        /\ made' = [kind |-> "kosk", sk |-> sk, msg |-> msg, hash |-> HashToG1]

CallKoskSignCustHash ==
    /\ fn = "none"
    /\ \E sk \in SecretKeys, msg \in Msgs, hash \in Hashes :
        /\ fn' = "KoskSignCustHash"
        /\ args' = [sk |-> sk, msg |-> msg, hash |-> hash]
        /\ ret' = KoskSignCustHash(sk, msg, hash)
        /\ prim' = [op |-> "SignCustHash", m |-> <<KoskTag(msg)>>,
                    hash |-> hash]
        /\ made' = [kind |-> "kosk", sk |-> sk, msg |-> msg, hash |-> hash]

\* The signers of an aggregate sign with KoskSign and the signatures are
\* summed.
CallAggregateSignatures ==
    /\ fn = "none"
    /\ \E a \in Aggregations :
        LET sigs == Signatures(a.sks, a.msgs, a.mult) IN
        /\ fn' = "AggregateSignatures"
        /\ args' = [sigs |-> sigs]
        /\ ret' = AggregateSignatures(sigs)
        /\ prim' = <<>>
        /\ made' = a

\* The signers of each multi-signature of a batch sign its message with
\* KoskSign and their signatures are summed: one aggregate for each.
CallAggregateSignaturesEach ==
    /\ fn = "none"
    /\ \E b \in Batches :
        LET sigs == [i \in DOMAIN b |->
                        Signatures(b[i].sks, Same(b[i].sks, b[i].msg),
                                   Same(b[i].sks, 1))] IN
        /\ fn' = "AggregateSignaturesEach"
        /\ args' = [sigs |-> sigs]
        /\ ret' = [i \in DOMAIN b |-> AggregateSignatures(sigs[i])]
        /\ prim' = <<>>
        /\ made' = b

(* Verifiers *)

\* A signature has been made by one signer.
Signed ==
    fn \in {"Authenticate", "AuthenticateCustHash", "KoskSign", "KoskSignCustHash"}

\* An aggregate has been made of signatures on one message, or of
\* signatures summed once each.
Aggregated == fn = "AggregateSignatures"
OneMessage == \A i \in DOMAIN made.msgs : made.msgs[i] = made.msgs[1]
SummedOnce == \A i \in DOMAIN made.mult : made.mult[i] = 1

\* The caller passes the signature made, any key and (to the Kosk verifier)
\* any message.
CallCheckAuthentication ==
    /\ Signed
    /\ \E pubkey \in KeyPoints :
        /\ fn' = "CheckAuthentication"
        /\ args' = [pubkey |-> pubkey, authentication |-> ret]
        /\ ret' = CheckAuthentication(pubkey, ret)
        /\ prim' = [op |-> "VerifySingleSignatureCustHash",
                    m |-> <<CheckAuthenticationMsg(pubkey)>>,
                    hash |-> HashToG1]
        /\ UNCHANGED made

CallCheckAuthenticationCustHash ==
    /\ Signed
    /\ \E pubkey \in KeyPoints, hash \in Hashes :
        /\ fn' = "CheckAuthenticationCustHash"
        /\ args' = [pubkey |-> pubkey, authentication |-> ret, hash |-> hash]
        /\ ret' = CheckAuthenticationCustHash(pubkey, ret, hash)
        /\ prim' = [op |-> "VerifySingleSignatureCustHash",
                    m |-> <<CheckAuthenticationMsg(pubkey)>>,
                    hash |-> hash]
        /\ UNCHANGED made

CallKoskVerifySingleSignature ==
    /\ Signed
    /\ \E pubKey \in KeyPoints,
          msg \in Msgs \cup {Marshal(k) : k \in KeyPoints} :
        /\ fn' = "KoskVerifySingleSignature"
        /\ args' = [sig |-> ret, pubKey |-> pubKey, msg |-> msg]
        /\ ret' = KoskVerifySingleSignature(ret, pubKey, msg)
        /\ prim' = [op |-> "VerifySingleSignature", m |-> <<KoskTag(msg)>>,
                    hash |-> HashToG1]
        /\ UNCHANGED made

CallKoskVerifySingleSignatureCustHash ==
    /\ Signed
    /\ \E pubKey \in KeyPoints, msg \in Msgs, hash \in Hashes :
        /\ fn' = "KoskVerifySingleSignatureCustHash"
        /\ args' = [pubKey |-> pubKey, msg |-> msg, sig |-> ret, hash |-> hash]
        /\ ret' = KoskVerifySingleSignatureCustHash(pubKey, msg, ret, hash)
        /\ prim' = [op |-> "VerifySingleSignature", m |-> <<KoskTag(msg)>>,
                    hash |-> HashToG1]
        /\ UNCHANGED made

\* The verifier is given the aggregate of signatures on one message, any
\* list of keys and any message.
CallKoskVerifyMultiSignature ==
    /\ Aggregated /\ OneMessage /\ SummedOnce
    /\ \E keys \in KeySeqs, msg \in Msgs :
        /\ fn' = "KoskVerifyMultiSignature"
        /\ args' = [aggsig |-> ret, keys |-> keys, msg |-> msg]
        /\ ret' = KoskVerifyMultiSignature(ret, keys, msg)
        /\ prim' = [op |-> "verifyMultiSignature", m |-> <<KoskTag(msg)>>,
                    hash |-> HashToG1]
        /\ UNCHANGED made

CallMultiSigVerify ==
    /\ Aggregated /\ OneMessage /\ SummedOnce
    /\ \E keys \in KeySeqs, msg \in Msgs :
        LET m == [sig |-> ret, keys |-> keys, msg |-> msg] IN
        /\ fn' = "MultiSig.Verify"
        /\ args' = [m |-> m]
        /\ ret' = MultiSigVerify(m)
        /\ prim' = [op |-> "verifyMultiSignature", m |-> <<KoskTag(msg)>>,
                    hash |-> HashToG1]
        /\ UNCHANGED made

\* The verifier is given the signers' keys and the messages, or lists that
\* differ from them in one place or in length.
AggregateInputs(sks, ms) ==
    LET pks == PublicKeys(sks) IN
    {<<ks, ms>> : ks \in {pks} \cup Replaced(pks, KeyPoints) \cup Shorter(pks)
                            \cup Longer(pks, {GetG2})}
      \cup {<<pks, m>> : m \in Swapped(ms) \cup Shorter(ms) \cup Longer(ms, {<<>>})
                                \cup {[ms EXCEPT ![1] = x] : x \in Msgs}}

CallKoskVerifyAggregateSignature ==
    /\ Aggregated /\ SummedOnce
    /\ \E in \in AggregateInputs(made.sks, made.msgs) :
        /\ fn' = "KoskVerifyAggregateSignature"
        /\ args' = [aggsig |-> ret, keys |-> in[1], msgs |-> in[2]]
        /\ ret' = KoskVerifyAggregateSignature(ret, in[1], in[2])
        /\ prim' = [op |-> "verifyAggSig",
                    m |-> [i \in DOMAIN in[2] |-> KoskTag(in[2][i])],
                    hash |-> HashToG1]
        /\ UNCHANGED made

\* The verifier is given the keys with the multiplicities, or the keys
\* scaled by the caller and no multiplicities; the multiplicities are the
\* signers', or differ from them by one in one place or in length.
MultiplicityInputs(sks, mult) ==
    LET pks == PublicKeys(sks) IN
    {<<pks, Slice(f)>> : f \in {mult} \cup OneOff(mult) \cup Shorter(mult)
                                  \cup Longer(mult, {1})}
      \cup {<<ScalePoints(pks, f), NilSlice>> : f \in {mult} \cup OneOff(mult)}
      \cup {<<ks, Slice(mult)>> : ks \in Shorter(pks) \cup Longer(pks, SecretKeys)}
      \cup {<<pks, NilSlice>>}

CallKoskVerifyMultiSignatureWithMultiplicity ==
    /\ Aggregated /\ OneMessage
    /\ \E in \in MultiplicityInputs(made.sks, made.mult), msg \in {made.msgs[1]} :
        /\ fn' = "KoskVerifyMultiSignatureWithMultiplicity"
        /\ args' = [aggsig |-> ret, keys |-> in[1], multiplicity |-> in[2],
                    msg |-> msg]
        /\ ret' = KoskVerifyMultiSignatureWithMultiplicity(ret, in[1], in[2], msg)
        /\ prim' = IF ~in[2].nil /\ Len(in[1]) # Len(in[2].elems)
                   THEN [op |-> "none", m |-> <<>>, hash |-> HashToG1]
                   ELSE [op |-> "verifyMultiSignature", m |-> <<KoskTag(msg)>>,
                         hash |-> HashToG1]
        /\ UNCHANGED made

\* A point to corrupt a signature with.
Delta == Hash(HashToG1, KoskTag(<<>>))

\* The three lists of a batch as its signers made them (S the aggregates),
\* and lists that differ from them: signatures swapped, one or two
\* signatures corrupted, messages swapped, the first message or first key
\* replaced, a list longer or shorter, the signatures of the first entry
\* listed one by one.
BatchInputs(b, S, one) ==
    LET P == [i \in DOMAIN b |-> PublicKeys(b[i].sks)]
        M == [i \in DOMAIN b |-> b[i].msg]
    IN  {<<S, P, M>>}
          \cup {<<X, P, M>> : X \in Swapped(S) \cup Shorter(S)
                                      \cup Longer(S, {Delta})}
          \cup {<<[S EXCEPT ![i] = PointAdd(S[i], Delta)], P, M>> : i \in DOMAIN b}
          \cup {<<[S EXCEPT ![p[1]] = PointAdd(S[p[1]], Delta),
                            ![p[2]] = PointAdd(S[p[2]], PointMul(Delta, Q - 1))], P, M>> :
                   p \in {q \in (DOMAIN b) \X (DOMAIN b) : q[1] < q[2]}}
          \cup {<<one \o Tail(S), P, M>>}
          \cup {<<S, X, M>> : X \in Shorter(P)
                     \cup {[P EXCEPT ![1] = [P[1] EXCEPT ![1] = k]] : k \in KeyPoints}}
          \cup {<<S, P, X>> : X \in Swapped(M) \cup Shorter(M)
                     \cup {[M EXCEPT ![1] = m] : m \in Msgs}}

CallKoskVerifyBatchMultiSignature ==
    /\ fn = "AggregateSignaturesEach"
    /\ \E in \in BatchInputs(made, ret, args.sigs[1]) :
        /\ fn' = "KoskVerifyBatchMultiSignature"
        /\ args' = [aggsigs |-> in[1], pubkeys |-> in[2], msgs |-> in[3]]
        /\ ret' = KoskVerifyBatchMultiSignature(in[1], in[2], in[3])
        /\ prim' = [op |-> "verifyAggSig",
                    m |-> [i \in DOMAIN in[3] |-> KoskTag(in[3][i])],
                    hash |-> HashToG1]
        /\ UNCHANGED made

Next ==
    \/ CallAuthenticate
    \/ CallAuthenticateCustHash
    \/ CallCheckAuthentication
    \/ CallCheckAuthenticationCustHash
    \/ CallKoskSign
    \/ CallKoskSignCustHash
    \/ CallKoskVerifySingleSignature
    \/ CallKoskVerifySingleSignatureCustHash
    \/ CallAggregateSignatures
    \/ CallAggregateSignaturesEach
    \/ CallKoskVerifyAggregateSignature
    \/ CallMultiSigVerify
    \/ CallKoskVerifyMultiSignature
    \/ CallKoskVerifyBatchMultiSignature
    \/ CallKoskVerifyMultiSignatureWithMultiplicity

Spec == Init /\ [][Next]_vars

----------------------------------------------------------------------------
(* Properties *)

IsAuthCheck == fn \in {"CheckAuthentication", "CheckAuthenticationCustHash"}
CheckHash == IF fn = "CheckAuthentication" THEN HashToG1 ELSE args.hash

\* C2. Authentication round trip: the authentication a signer makes for its
\* secret key is accepted by CheckAuthentication for the public key of that
\* secret key (with the default hash, or with the same custom hash on both
\* sides).
AuthenticationRoundTrip ==
    (/\ IsAuthCheck
     /\ made.kind = "auth"
     /\ made.hash = CheckHash
     /\ args.pubkey = LoadPublicKey(made.sk))
      => ret = TRUE

AuthenticationAccepted ==
    /\ fn = "CheckAuthentication"
    /\ made.kind = "auth"
    /\ made.hash = HashToG1
    /\ args.pubkey = LoadPublicKey(made.sk)
    /\ args.authentication = Authenticate(made.sk)
    /\ ret = TRUE

\* C3. Sign/verify round trip: KoskVerifySingleSignature accepts the
\* signature KoskSign(sk, msg) for the public key of sk and the message msg.
SignVerifyRoundTrip ==
    (/\ fn = "KoskVerifySingleSignature"
     /\ made.kind = "kosk"
     /\ made.hash = HashToG1
     /\ args.pubKey = LoadPublicKey(made.sk)
     /\ args.msg = made.msg)
      => ret = TRUE

SignatureAccepted ==
    /\ fn = "KoskVerifySingleSignature"
    /\ made.kind = "kosk"
    /\ made.hash = HashToG1
    /\ args.sig = KoskSign(made.sk, made.msg)
    /\ args.pubKey = LoadPublicKey(made.sk)
    /\ args.msg = made.msg
    /\ Len(args.msg) > 0
    /\ ret = TRUE

\* C9. The custom hash is honoured: KoskVerifySingleSignatureCustHash with
\* the hash function h accepts the signature KoskSignCustHash made with h.
CustomHashHonoured ==
    (/\ fn = "KoskVerifySingleSignatureCustHash"
     /\ made.kind = "kosk"
     /\ made.hash = args.hash
     /\ args.pubKey = LoadPublicKey(made.sk)
     /\ args.msg = made.msg)
      => ret = TRUE

\* C10. Authentication tag: Authenticate signs, and CheckAuthentication
\* verifies, the byte 0x00 followed by the encoding of the public key.
AuthenticationTag ==
    /\ fn \in {"Authenticate", "AuthenticateCustHash"}
         => prim.m = << <<0>> \o Marshal(LoadPublicKey(args.sk)) >>
    /\ IsAuthCheck
         => prim.m = << <<0>> \o Marshal(args.pubkey) >>

\* C1. Domain disjointness: what Authenticate signs is never what KoskSign
\* signs; the Kosk verifier never accepts a signer's authentication for the
\* signer's key, and CheckAuthentication never accepts a signer's Kosk
\* signature for the signer's key.
DomainsDisjoint ==
    /\ fn \in {"Authenticate", "AuthenticateCustHash"}
         => \A msg \in Msgs : prim.m[1] # KoskTag(msg)
    /\ (/\ fn = "KoskVerifySingleSignature"
        /\ made.kind = "auth"
        /\ made.hash = HashToG1
        /\ args.pubKey = LoadPublicKey(made.sk))
         => ret = FALSE
    /\ (/\ fn = "CheckAuthentication"
        /\ made.kind = "kosk"
        /\ made.hash = HashToG1
        /\ args.pubkey = LoadPublicKey(made.sk))
         => ret = FALSE

\* The call is a multi-signature verification of the aggregate of the
\* signatures of made.sks on made.msgs[1] (the arguments of MultiSig.Verify are
\* the fields of m).
IsMulti == fn \in {"KoskVerifyMultiSignature", "MultiSig.Verify"}
MultiKeys == IF fn = "MultiSig.Verify" THEN args.m.keys ELSE args.keys
MultiMsg == IF fn = "MultiSig.Verify" THEN args.m.msg ELSE args.msg
MultiSig == IF fn = "MultiSig.Verify" THEN args.m.sig ELSE args.aggsig

\* The lists differ in exactly one place.
OneReplaced(s, t) ==
    /\ Len(s) = Len(t)
    /\ Cardinality({i \in DOMAIN s : s[i] # t[i]}) = 1

MultiAccepted ==
    (/\ IsMulti
     /\ MultiKeys = PublicKeys(made.sks)
     /\ MultiMsg = made.msgs[1])
      => ret = TRUE

KeyReplacedRejected ==
    (/\ IsMulti
     /\ OneReplaced(MultiKeys, PublicKeys(made.sks))
     /\ MultiMsg = made.msgs[1])
      => ret = FALSE

\* C5 as stated. Multi-signature correctness: the sum of the signers'
\* signatures on msg is accepted with the signers' keys and msg, and
\* rejected with any other message or with any one key replaced.
MultiSignatureCorrect ==
    /\ MultiAccepted
    /\ KeyReplacedRejected
    /\ (/\ IsMulti
        /\ MultiKeys = PublicKeys(made.sks)
        /\ MultiMsg # made.msgs[1])
         => ret = FALSE

\* C5 as amended. The same, where another message is rejected provided the
\* signers' keys do not sum to the identity of the key group.
MultiSignatureCorrectNonzero ==
    /\ MultiAccepted
    /\ KeyReplacedRejected
    /\ (/\ IsMulti
        /\ MultiKeys = PublicKeys(made.sks)
        /\ MultiMsg # made.msgs[1]
        /\ AggregateKeys(MultiKeys) # 0)
         => ret = FALSE

OtherMessageRejected ==
    /\ fn = "MultiSig.Verify"
    /\ Len(made.sks) > 1
    /\ args.m.sig = AggregateSignatures(Signatures(made.sks, made.msgs, made.mult))
    /\ args.m.keys = PublicKeys(made.sks)
    /\ args.m.msg # made.msgs[1]
    /\ AggregateKeys(args.m.keys) # 0
    /\ ret = FALSE

\* C6. Aggregate-signature correctness: the sum of the signatures of signer
\* i on msgs[i] is accepted with the signers' keys and msgs, and rejected
\* with two different messages of two different keys swapped.
AggregateSignatureCorrect ==
    /\ (/\ fn = "KoskVerifyAggregateSignature"
        /\ args.keys = PublicKeys(made.sks)
        /\ args.msgs = made.msgs)
         => ret = TRUE
    /\ (/\ fn = "KoskVerifyAggregateSignature"
        /\ args.keys = PublicKeys(made.sks)
        /\ \E i, j \in DOMAIN made.msgs :
              /\ made.msgs[i] # made.msgs[j]
              /\ args.keys[i] # args.keys[j]
              /\ args.msgs = SwapAt(made.msgs, i, j))
         => ret = FALSE

SwappedMessagesRejected ==
    /\ fn = "KoskVerifyAggregateSignature"
    /\ args.aggsig = AggregateSignatures(Signatures(made.sks, made.msgs, made.mult))
    /\ args.keys = PublicKeys(made.sks)
    /\ \E i, j \in DOMAIN made.msgs :
          /\ made.msgs[i] # made.msgs[j]
          /\ args.keys[i] # args.keys[j]
          /\ args.msgs = SwapAt(made.msgs, i, j)
    /\ ret = FALSE

IsWithMultiplicity == fn = "KoskVerifyMultiSignatureWithMultiplicity"

\* C7. Multiplicity equivalence: for an aggregate in which the signature of
\* signer i is summed made.mult[i] times, the keys with the multiplicities
\* and the keys scaled by the multiplicities with no multiplicities are both
\* accepted, and both rejected with one multiplicity changed by one.
MultiplicityEquivalence ==
    IsWithMultiplicity =>
        LET pks == PublicKeys(made.sks) IN
        /\ (args.keys = pks /\ args.multiplicity = Slice(made.mult))
             => ret = TRUE
        /\ (/\ args.keys = ScalePoints(pks, made.mult)
            /\ args.multiplicity = NilSlice)
             => ret = TRUE
        /\ \A f \in OneOff(made.mult) :
            /\ (args.keys = pks /\ args.multiplicity = Slice(f))
                 => ret = FALSE
            /\ (args.keys = ScalePoints(pks, f) /\ args.multiplicity = NilSlice)
                 => ret = FALSE

MultiplicityAccepted ==
    /\ IsWithMultiplicity
    /\ args.aggsig = AggregateSignatures(Signatures(made.sks, made.msgs, made.mult))
    /\ args.msg = made.msgs[1]
    /\ args.keys = PublicKeys(made.sks)
    /\ args.multiplicity = Slice(made.mult)
    /\ \E i \in DOMAIN made.mult : made.mult[i] > 1
    /\ ret = TRUE

IsBatch == fn = "KoskVerifyBatchMultiSignature"

BatchLengthsEqual ==
    /\ Len(args.aggsigs) = Len(args.pubkeys)
    /\ Len(args.pubkeys) = Len(args.msgs)

\* The entries of the batch that KoskVerifyMultiSignature rejects.
BatchRejected ==
    {i \in DOMAIN args.aggsigs :
        ~KoskVerifyMultiSignature(args.aggsigs[i], args.pubkeys[i], args.msgs[i])}

\* C4 as stated. Batch verification equivalence: a batch is accepted if and
\* only if KoskVerifyMultiSignature accepts each of its entries.
BatchEquivalence ==
    (IsBatch /\ BatchLengthsEqual) => (ret = (BatchRejected = {}))

\* C4 as amended. A batch of which KoskVerifyMultiSignature accepts every
\* entry is accepted, and a batch of which it rejects exactly one entry is
\* rejected.
BatchAcceptsValidRejectsOneCorrupted ==
    /\ (IsBatch /\ BatchLengthsEqual /\ BatchRejected = {}) => ret = TRUE
    /\ (IsBatch /\ BatchLengthsEqual /\ Cardinality(BatchRejected) = 1)
         => ret = FALSE

OneCorruptedRejected ==
    /\ IsBatch
    /\ BatchLengthsEqual
    /\ Len(args.aggsigs) > 1
    /\ Cardinality(BatchRejected) = 1
    /\ ret = FALSE

\* C8. Fail closed on length mismatch: a verifier whose lists differ in
\* length returns false.
LengthMismatchRejected ==
    /\ (/\ IsWithMultiplicity
        /\ ~args.multiplicity.nil
        /\ Len(args.keys) # Len(args.multiplicity.elems))
         => ret = FALSE
    /\ (/\ fn = "KoskVerifyAggregateSignature"
        /\ Len(args.keys) # Len(args.msgs))
         => ret = FALSE
    /\ (IsBatch /\ ~BatchLengthsEqual) => ret = FALSE

====
